---- MODULE Spec2Model ----
(***************************************************************************)
(* A model of collections::autorelease_queue (autorelease_queue.h): the    *)
(* wrap-around clock, the delay queue, the ticker driven by an asio        *)
(* deadline timer on its own thread, the start/stop/u_clear controller    *)
(* and the versioned save/load.                                            *)
(***************************************************************************)
EXTENDS Integers, Sequences, FiniteSets, TLC

\* ------------------------------------------------------------ bounds
\* Width of time_point in the model (uint32_t in the source).
TimeBits == 3
\* No more than MaxQueue entries are ever enqueued.
MaxQueue == 1
\* start() is called with at most MaxReady completion handlers waiting in the
\* io_service.
MaxReady == 0
\* A loaded record holds at most MaxRecord pairs.
MaxRecord == 2

\* ------------------------------------------------------------ constants
obj_lifetime == 10
tick_duration == 2
one_tick == 1
obj_lifeInTicks == obj_lifetime \div tick_duration

\* (std::numeric_limits<time_point>::max)()
MAX == 2^TimeBits - 1

\* Unsigned arithmetic of width TimeBits: every C++ result is reduced.
Wrap(x) == x % (MAX + 1)

TimePoint == 0..MAX

\* ------------------------------------------------------------ the clock
time_subtract_wrap(minuend, subtrahend) == Wrap(minuend - subtrahend)

time_subtract(minuend, subtrahend) ==
    IF minuend >= subtrahend
    THEN Wrap(minuend - subtrahend)
    ELSE Wrap(MAX - Wrap(subtrahend - minuend))

time_add_wrap(a, b) == Wrap(a + b)

time_add_ge(a, b) ==
    LET max == MAX
    IN IF Wrap(max - a) >= b THEN Wrap(a + b) ELSE Wrap(b - Wrap(max - a))

time_add(a, b) ==
    LET max == MAX
    IN IF Wrap(max - a) > b THEN Wrap(a + b) ELSE Wrap(b - Wrap(max - a))

\* The values the expressions of time_add take before they are stored in a
\* time_point, computed over the integers (not reduced).
time_add_raw(a, b) ==
    LET max == MAX
    IN {max - a} \cup (IF Wrap(max - a) > b THEN {a + b} ELSE {b - (max - a)})

\* The same for time_subtract.
time_subtract_raw(minuend, subtrahend) ==
    IF minuend >= subtrahend
    THEN {minuend - subtrahend}
    ELSE {subtrahend - minuend, MAX - (subtrahend - minuend)}

\* ------------------------------------------------------------ the state
Objects == {"o1", "o2"}
NULL == "null"
Handles == {"h1", "h2", "h3"}
\* The objects producers prolong.
Prolonged == {"o1"}

Producer == "prod"
Controller == "ctl"
Ticker == "ticker"
FREE == "free"
NoCall == [obj |-> NULL, pub |-> FALSE, tick |-> 0]

\* The program counters of tick() at which the ticker thread holds
\* _timer_mutex: a sweep is in progress.
SweepPcs == {"lockq", "scan", "advance", "release", "restart"}

VARIABLES
    clk,           \* inputs and result of the last clock operation applied
    _tickCounter,  \* time_point _tickCounter
    _queue,        \* std::deque of (queue_object_ref, time_point); each entry
                   \* also carries how it was pushed and how many sweeps it
                   \* has been scanned by
    _toRelease,    \* std::vector<queue_object_ref> _toRelease
    _queue_mutex,  \* spinlock _queue_mutex: its holder, or FREE
    _timer_mutex,  \* spinlock _timer_mutex: its holder, or FREE
    _timer,        \* deadline_timer: "armed" while an async_wait is pending
    _io,           \* io_service: completion codes of the handlers ready to run
    pcT,           \* position of the ticker thread (_io.run())
    pc,            \* position of the producer and of the controller thread
    pushedTime,    \* prolong_lifetime's arguments and its local pushedTime
    op,            \* the operation the controller thread is executing
    refs,          \* per object: retain() calls minus _final_release() calls
                   \* made through queue_object_ref
    ar,            \* the archive written by the last save
    saved,         \* the tick counter and entries at the last save
    loaded,        \* the result of the last load
    stopped,       \* stop() has returned and start() was not called since
    waitSweep,     \* the sweep in progress when stop() was called; after the
                   \* stop() of u_clear, whether it cancelled a pending wait
    ageing         \* whether entries count the sweeps that scanned them

vars == <<clk, _tickCounter, _queue, _toRelease, _queue_mutex, _timer_mutex,
          _timer, _io, pcT, pc, pushedTime, op, refs, ar, saved, loaded,
          stopped, waitSweep, ageing>>

clockVars == <<clk>>
fixedVars == <<ageing>>
queueVars == <<_tickCounter, _queue, _toRelease, refs>>
lockVars == <<_queue_mutex, _timer_mutex>>
timerVars == <<_timer, _io>>
codecVars == <<ar, saved, loaded>>
ghostVars == <<stopped, waitSweep>>

Min(x, y) == IF x <= y THEN x ELSE y

\* Ages above AgeCap are not told apart.
AgeCap == obj_lifeInTicks + 1

\* The (object reference, pushedTick) pairs of a queue, in order.
Pairs(q) == [i \in 1..Len(q) |-> <<q[i].obj, q[i].tick>>]

\* Number of references to object o held by the elements of sequence s.
Count(s, o) == Cardinality({i \in 1..Len(s) : s[i].obj = o})

\* retain() / _final_release() through queue_object_ref: the new reference
\* counts after the elements of gained are constructed and those of dropped
\* are destroyed (a null reference retains and releases nothing).
Retained(r, gained, dropped) ==
    [o \in Objects |-> r[o] + Count(gained, o) - Count(dropped, o)]

clkIdle == [op |-> "none", a |-> 0, b |-> 0, res1 |-> 0, res2 |-> 0, raw |-> {}]
noLoad == [op |-> "none", tick |-> 0, queue |-> <<>>, v1tick |-> 0, v1queue |-> <<>>]
noSave == [valid |-> FALSE, tick |-> 0, pairs |-> <<>>]

\* The state the constructor leaves: an empty queue, counter 0, the io thread
\* running and the timer armed by start().
Started ==
    /\ _toRelease = <<>>
    /\ _queue_mutex = FREE
    /\ _timer_mutex = FREE
    /\ _timer = "armed"
    /\ _io = <<>>
    /\ pcT = "run"
    /\ pc = [t \in {Producer, Controller} |-> "idle"]
    /\ pushedTime = NoCall
    /\ op = "none"
    /\ ar = <<0, 0>>
    /\ saved = noSave
    /\ loaded = noLoad
    /\ stopped = FALSE
    /\ waitSweep = "none"

Constructed ==
    /\ Started
    /\ clk = clkIdle
    /\ _tickCounter = 0
    /\ _queue = <<>>
    /\ refs = [o \in Objects |-> 0]

Init == Constructed /\ ageing = FALSE

\* The same state, with the entries counting their sweeps.
SweepInit == Constructed /\ ageing = TRUE

\* ------------------------------------------------------------ the timer
\* deadline_timer::cancel(): a pending wait completes with operation_aborted;
\* a wait that already completed is not affected.
cancel ==
    /\ _timer' = "idle"
    /\ _io' = IF _timer = "armed" THEN Append(_io, "aborted") ELSE _io

\* expires_from_now() cancels a pending wait; async_wait() arms a new one.
u_startTimer ==
    /\ _timer' = "armed"
    /\ _io' = IF _timer = "armed" THEN Append(_io, "aborted") ELSE _io

\* The deadline passes: the wait completes with success and its handler is
\* queued in the io_service.
TimerExpire ==
    /\ _timer = "armed"
    /\ _timer' = "idle"
    /\ _io' = Append(_io, "ok")
    /\ UNCHANGED <<fixedVars, clockVars, queueVars, lockVars, codecVars, ghostVars,
                   pcT, pc, pushedTime, op>>

\* _io.stop() was called: run() invokes no further handler and returns.
io_stopped == pc[Controller] \in {"d_join", "destroyed"}

\* A handler that calls tick() whatever its error code is.
HandlerRun_any ==
    /\ pcT = "run"
    /\ ~io_stopped
    /\ _io # <<>>
    /\ _io' = Tail(_io)
    /\ pcT' = "tick"
    /\ UNCHANGED <<fixedVars, clockVars, queueVars, lockVars, codecVars, ghostVars,
                   _timer, pc, pushedTime, op>>

\* _io.run() invokes the next ready handler: if (!e) tick().
HandlerRun ==
    /\ pcT = "run"
    /\ ~io_stopped
    /\ _io # <<>>
    /\ _io' = Tail(_io)
    /\ pcT' = IF Head(_io) = "ok" THEN "tick" ELSE "run"
    /\ UNCHANGED <<fixedVars, clockVars, queueVars, lockVars, codecVars, ghostVars,
                   _timer, pc, pushedTime, op>>

\* ------------------------------------------------------------ tick()
\* spinlock::guard g(_timer_mutex);
TickLockTimer ==
    /\ pcT = "tick"
    /\ _timer_mutex = FREE
    /\ _timer_mutex' = Ticker
    /\ pcT' = "lockq"
    /\ UNCHANGED <<fixedVars, clockVars, queueVars, timerVars, codecVars, ghostVars,
                   _queue_mutex, pc, pushedTime, op>>

\* spinlock::guard g(_queue_mutex);
TickLockQueue ==
    /\ pcT = "lockq"
    /\ _queue_mutex = FREE
    /\ _queue_mutex' = Ticker
    /\ pcT' = "scan"
    /\ UNCHANGED <<fixedVars, clockVars, queueVars, timerVars, codecVars, ghostVars,
                   _timer_mutex, pc, pushedTime, op>>

\* A predicate that keeps an entry whose age equals obj_lifeInTicks.
release_gt(val) ==
    LET diff == Wrap(time_subtract(_tickCounter, val.tick) + 1)
    IN diff > obj_lifeInTicks

\* The predicate of remove_if.
release(val) ==
    LET diff == Wrap(time_subtract(_tickCounter, val.tick) + 1)
    IN diff >= obj_lifeInTicks

\* An entry after one more scan (the count is kept only where it is read).
Scanned(val) ==
    [val EXCEPT !.age = IF ageing THEN Min(val.age + 1, AgeCap) ELSE 0]

\* _queue.erase(remove_if(...)): the expired references go to _toRelease,
\* the others stay, in order.
TickScan ==
    /\ pcT = "scan"
    /\ _queue' = SelectSeq([i \in 1..Len(_queue) |-> Scanned(_queue[i])],
                           LAMBDA val : ~release(val))
    /\ _toRelease' = _toRelease \o
                     SelectSeq([i \in 1..Len(_queue) |-> Scanned(_queue[i])],
                               LAMBDA val : release(val))
    /\ pcT' = "advance"
    /\ UNCHANGED <<fixedVars, clockVars, lockVars, timerVars, codecVars, ghostVars,
                   _tickCounter, refs, pc, pushedTime, op>>

\* A counter advance by plain unsigned addition.
TickAdvance_plain ==
    /\ pcT = "advance"
    /\ _tickCounter' = Wrap(_tickCounter + one_tick)
    /\ _queue_mutex' = FREE
    /\ pcT' = "release"
    /\ UNCHANGED <<fixedVars, clockVars, timerVars, codecVars, ghostVars, _queue,
                   _toRelease, refs, _timer_mutex, pc, pushedTime, op>>

\* A counter advance whose scope keeps the queue lock.
TickAdvance_keep ==
    /\ pcT = "advance"
    /\ _tickCounter' = time_add(_tickCounter, one_tick)
    /\ pcT' = "release"
    /\ UNCHANGED <<fixedVars, clockVars, lockVars, timerVars, codecVars, ghostVars,
                   _queue, _toRelease, refs, pc, pushedTime, op>>

\* _tickCounter = time_add(_tickCounter, one_tick); the queue guard ends.
TickAdvance ==
    /\ pcT = "advance"
    /\ _tickCounter' = time_add(_tickCounter, one_tick)
    /\ _queue_mutex' = FREE
    /\ pcT' = "release"
    /\ UNCHANGED <<fixedVars, clockVars, timerVars, codecVars, ghostVars, _queue,
                   _toRelease, refs, _timer_mutex, pc, pushedTime, op>>

\* _toRelease.clear();
TickRelease ==
    /\ pcT = "release"
    /\ refs' = Retained(refs, <<>>, _toRelease)
    /\ _toRelease' = <<>>
    /\ pcT' = "restart"
    /\ UNCHANGED <<fixedVars, clockVars, lockVars, timerVars, codecVars, ghostVars,
                   _tickCounter, _queue, pc, pushedTime, op>>

\* u_startTimer(); the timer guard ends and the handler returns.
TickRestart ==
    /\ pcT = "restart"
    /\ u_startTimer
    /\ _timer_mutex' = FREE
    /\ pcT' = "run"
    /\ waitSweep' = IF waitSweep = "pending" THEN "finished" ELSE waitSweep
    /\ UNCHANGED <<fixedVars, clockVars, queueVars, codecVars, _queue_mutex, pc,
                   pushedTime, op, stopped>>

\* ------------------------------------------------------------ producers
\* prolong_lifetime: pushedTime is computed before the queue guard is taken.
P_Read(object, isPublic) ==
    /\ pc[Producer] = "idle"
    /\ Len(_queue) < MaxQueue
    /\ pushedTime' = [obj |-> object, pub |-> isPublic,
                      tick |-> IF isPublic
                               THEN _tickCounter
                               ELSE time_subtract(_tickCounter, obj_lifeInTicks)]
    /\ pc' = [pc EXCEPT ![Producer] = "p_lock"]
    /\ UNCHANGED <<fixedVars, clockVars, queueVars, lockVars, timerVars, codecVars,
                   ghostVars, pcT, op>>

\* spinlock::guard g(_queue_mutex);
P_Lock ==
    /\ pc[Producer] = "p_lock"
    /\ _queue_mutex = FREE
    /\ _queue_mutex' = Producer
    /\ pc' = [pc EXCEPT ![Producer] = "p_push"]
    /\ UNCHANGED <<fixedVars, clockVars, queueVars, timerVars, codecVars, ghostVars,
                   _timer_mutex, pcT, pushedTime, op>>

NewEntry(object, tick, how) ==
    [obj |-> object, tick |-> tick, pub |-> how, age |-> 0]

\* _queue.push_back(std::make_pair(&object, pushedTime)); the guard ends.
P_Push ==
    /\ pc[Producer] = "p_push"
    /\ LET e == NewEntry(pushedTime.obj, pushedTime.tick,
                         IF pushedTime.pub THEN "public" ELSE "private")
       IN /\ _queue' = Append(_queue, e)
          /\ refs' = Retained(refs, <<e>>, <<>>)
    /\ _queue_mutex' = FREE
    /\ pushedTime' = NoCall
    /\ pc' = [pc EXCEPT ![Producer] = "idle"]
    /\ UNCHANGED <<fixedVars, clockVars, timerVars, codecVars, ghostVars, _tickCounter,
                   _toRelease, _timer_mutex, pcT, op>>

u_count == Len(_queue)

\* count(): spinlock::guard g(_queue_mutex);
Count_Lock ==
    /\ pc[Producer] = "idle"
    /\ _queue_mutex = FREE
    /\ _queue_mutex' = Producer
    /\ pc' = [pc EXCEPT ![Producer] = "c_count"]
    /\ UNCHANGED <<fixedVars, clockVars, queueVars, timerVars, codecVars, ghostVars,
                   _timer_mutex, pcT, pushedTime, op>>

\* return u_count(); the guard ends.
Count_Return ==
    /\ pc[Producer] = "c_count"
    /\ _queue_mutex' = FREE
    /\ pc' = [pc EXCEPT ![Producer] = "idle"]
    /\ UNCHANGED <<fixedVars, clockVars, queueVars, timerVars, codecVars, ghostVars,
                   _timer_mutex, pcT, pushedTime, op>>

\* ------------------------------------------------------------ start / stop
\* start(): restartTimer() takes the timer guard.
Start_Lock ==
    /\ pc[Controller] = "idle"
    /\ Len(_io) <= MaxReady
    /\ _timer_mutex = FREE
    /\ _timer_mutex' = Controller
    /\ op' = "start"
    /\ stopped' = FALSE
    /\ pc' = [pc EXCEPT ![Controller] = "st_timer"]
    /\ UNCHANGED <<fixedVars, clockVars, queueVars, timerVars, codecVars, _queue_mutex,
                   pcT, pushedTime, waitSweep>>

\* u_startTimer(); the guard ends and start() returns.
Start_Timer ==
    /\ pc[Controller] = "st_timer"
    /\ u_startTimer
    /\ _timer_mutex' = FREE
    /\ op' = "none"
    /\ pc' = [pc EXCEPT ![Controller] = "idle"]
    /\ UNCHANGED <<fixedVars, clockVars, queueVars, codecVars, ghostVars, _queue_mutex,
                   pcT, pushedTime>>

\* stop() is entered, by a caller or from u_clear().
EnterStop(caller) ==
    /\ pc[Controller] = "idle"
    /\ op' = caller
    /\ waitSweep' = IF _timer_mutex = Ticker THEN "pending" ELSE "none"
    /\ pc' = [pc EXCEPT ![Controller] = "s_lock"]
    /\ UNCHANGED <<fixedVars, clockVars, queueVars, lockVars, timerVars, codecVars,
                   pcT, pushedTime, stopped>>

Stop_Call == EnterStop("stop")

Clear_Call == EnterStop("u_clear")

\* stop(): a lock that is taken without waiting for its holder.
S_Lock_nowait ==
    /\ pc[Controller] = "s_lock"
    /\ pc' = [pc EXCEPT ![Controller] = "s_cancel"]
    /\ UNCHANGED <<fixedVars, clockVars, queueVars, lockVars, timerVars, codecVars,
                   ghostVars, pcT, pushedTime, op>>

\* stop(): spinlock::guard g(_timer_mutex);
S_Lock ==
    /\ pc[Controller] = "s_lock"
    /\ _timer_mutex = FREE
    /\ _timer_mutex' = Controller
    /\ pc' = [pc EXCEPT ![Controller] = "s_cancel"]
    /\ UNCHANGED <<fixedVars, clockVars, queueVars, timerVars, codecVars, ghostVars,
                   _queue_mutex, pcT, pushedTime, op>>

\* Where stop() returns to: its caller, u_clear() or the destructor.
AfterStop(caller) ==
    CASE caller = "u_clear" -> "uc_tick"
      [] caller = "dtor" -> "d_iostop"
      [] OTHER -> "idle"

\* stop(): _timer.cancel(); the guard ends and stop() returns.
S_Cancel ==
    /\ pc[Controller] = "s_cancel"
    /\ cancel
    /\ _timer_mutex' = FREE
    /\ stopped' = TRUE
    /\ waitSweep' = IF op = "u_clear" /\ _timer = "armed" THEN "cancelled" ELSE "none"
    /\ op' = IF op = "stop" THEN "none" ELSE op
    /\ pc' = [pc EXCEPT ![Controller] = AfterStop(op)]
    /\ UNCHANGED <<fixedVars, clockVars, queueVars, codecVars, _queue_mutex, pcT,
                   pushedTime>>

\* ------------------------------------------------------------ u_clear()
\* _tickCounter = 0;
UC_Tick ==
    /\ pc[Controller] = "uc_tick"
    /\ _tickCounter' = 0
    /\ pc' = [pc EXCEPT ![Controller] = "uc_queue"]
    /\ UNCHANGED <<fixedVars, clockVars, lockVars, timerVars, codecVars, ghostVars,
                   _queue, _toRelease, refs, pcT, pushedTime, op>>

\* _queue.clear();
UC_Queue ==
    /\ pc[Controller] = "uc_queue"
    /\ refs' = Retained(refs, <<>>, _queue)
    /\ _queue' = <<>>
    /\ pc' = [pc EXCEPT ![Controller] = "uc_release"]
    /\ UNCHANGED <<fixedVars, clockVars, lockVars, timerVars, codecVars, ghostVars,
                   _tickCounter, _toRelease, pcT, pushedTime, op>>

\* _toRelease.clear(); u_clear() returns.
UC_Release ==
    /\ pc[Controller] = "uc_release"
    /\ refs' = Retained(refs, <<>>, _toRelease)
    /\ _toRelease' = <<>>
    /\ op' = "none"
    /\ pc' = [pc EXCEPT ![Controller] = "idle"]
    /\ UNCHANGED <<fixedVars, clockVars, lockVars, timerVars, codecVars, ghostVars,
                   _tickCounter, _queue, pcT, pushedTime>>

\* u_clear() holds no lock: its _toRelease.clear() and the one of tick() can
\* run at the same time on the same vector.  Both walk the same elements and
\* destroy each of them, so every reference is released by both threads.
Race_toRelease_clear ==
    /\ pc[Controller] = "uc_release"
    /\ pcT = "release"
    /\ _toRelease # <<>>
    /\ \A o \in Objects : refs[o] = Count(_queue, o) + Count(_toRelease, o)
    /\ refs' = Retained(Retained(refs, <<>>, _toRelease), <<>>, _toRelease)
    /\ _toRelease' = <<>>
    /\ op' = "none"
    /\ pc' = [pc EXCEPT ![Controller] = "idle"]
    /\ pcT' = "restart"
    /\ UNCHANGED <<fixedVars, clockVars, lockVars, timerVars, codecVars, ghostVars,
                   _tickCounter, _queue, pushedTime>>

\* ------------------------------------------------------------ save / load
RECURSIVE Flatten(_)
\* The items of a serialized collection of pairs, one after the other.
Flatten(pairs) ==
    IF pairs = <<>>
    THEN <<>>
    ELSE <<pairs[1][1], pairs[1][2]>> \o Flatten(Tail(pairs))

\* ar & _tickCounter; ar & _queue;  The archive holds the counter, then the
\* collection: its size and its items.
save(tick, q) == <<tick, Len(q)>> \o Flatten(Pairs(q))

\* The pairs an archive holds after its counter.
ReadPairs(a) == [i \in 1..a[2] |-> <<a[2 * i + 1], a[2 * i + 2]>>]

\* object_registry::u_getObject: the object of a handle, or null.
u_getObject(handle) ==
    CASE handle = "h1" -> "o1"
      [] handle = "h2" -> "o2"
      [] OTHER -> NULL

\* The entries of the pairs ps, in order.
Entries(ps) == [i \in 1..Len(ps) |-> NewEntry(ps[i][1], ps[i][2], "loaded")]

\* The version-0 loop: each pair whose handle resolves is pushed back.
Resolved(old) ==
    SelectSeq([i \in 1..Len(old) |-> <<u_getObject(old[i][1]), old[i][2]>>],
              LAMBDA pair : pair[1] # NULL)

\* load with a version-1 branch that pushes back instead of replacing.
load_append(version, a, q) ==
    [tick |-> a[1],
     queue |-> IF version = 1
               THEN q \o Entries(ReadPairs(a))
               ELSE q \o Entries(Resolved(ReadPairs(a)))]

\* load: the counter and the queue it leaves, from archive a and queue q.
load(version, a, q) ==
    [tick |-> a[1],
     queue |-> IF version = 1
               THEN Entries(ReadPairs(a))
               ELSE q \o Entries(Resolved(ReadPairs(a)))]

\* The counter values and pair sequences records are drawn from.
RecTicks == {0, 1, MAX}
PairSeqs(tokens) ==
    UNION {[1..n -> tokens \X RecTicks] : n \in 0..MaxRecord}
Archives(tokens) ==
    {<<t, Len(ps)>> \o Flatten(ps) : t \in RecTicks, ps \in PairSeqs(tokens)}

\* The version-1 record holding the counter of the version-0 record a and the
\* pairs (resolve(handle), pushedTick) of the handles that resolve.
Migrated(a) == <<a[1], Len(Resolved(ReadPairs(a)))>> \o Flatten(Resolved(ReadPairs(a)))

\* save(ar, 1)
Save ==
    /\ pc[Controller] = "idle"
    /\ ~saved.valid
    /\ loaded.op # "saved"
    /\ ar' = save(_tickCounter, _queue)
    /\ saved' = [valid |-> TRUE, tick |-> _tickCounter, pairs |-> Pairs(_queue)]
    /\ UNCHANGED <<fixedVars, clockVars, queueVars, lockVars, timerVars,
                   ghostVars, loaded, pcT, pc, pushedTime, op>>

\* load(a, version), and what it leaves.
Load(version, a, how) ==
    /\ pc[Controller] = "idle"
    /\ LET r == load(version, a, _queue)
           v1 == load(1, IF version = 0 THEN Migrated(a) ELSE a, _queue)
       IN /\ _tickCounter' = r.tick
          /\ _queue' = r.queue
          /\ refs' = IF version = 1
                     THEN Retained(refs, r.queue, _queue)
                     ELSE Retained(refs, SubSeq(r.queue, Len(_queue) + 1, Len(r.queue)), <<>>)
          /\ loaded' = [op |-> how, tick |-> r.tick, queue |-> r.queue,
                        v1tick |-> v1.tick, v1queue |-> v1.queue]
    /\ UNCHANGED <<fixedVars, clockVars, lockVars, timerVars, ghostVars,
                   _toRelease, ar, saved, pcT, pc, pushedTime, op>>

\* A version-0 record is loaded.
Load0 ==
    /\ loaded.op = "none"
    /\ \E a \in Archives(Handles) : Load(0, a, "v0")

\* A version-1 record is loaded.
Load1 ==
    /\ loaded.op = "none"
    /\ \E a \in Archives(Objects) : Load(1, a, "v1")

\* The record of the last save is loaded.
LoadSaved ==
    /\ saved.valid
    /\ loaded.op # "saved"
    /\ Load(1, ar, "saved")

\* ------------------------------------------------------------ clock operations
ClockAdd ==
    /\ clk.op = "none"
    /\ clk' = [clk EXCEPT !.op = "add",
                          !.res1 = time_add(clk.a, clk.b),
                          !.raw = time_add_raw(clk.a, clk.b)]
    /\ UNCHANGED <<fixedVars, queueVars, lockVars, timerVars, codecVars,
                   ghostVars, pcT, pc, pushedTime, op>>

ClockSubtract ==
    /\ clk.op = "none"
    /\ clk' = [clk EXCEPT !.op = "sub",
                          !.res1 = time_subtract(clk.a, clk.b),
                          !.raw = time_subtract_raw(clk.a, clk.b)]
    /\ UNCHANGED <<fixedVars, queueVars, lockVars, timerVars, codecVars,
                   ghostVars, pcT, pc, pushedTime, op>>

\* c = time_add(a, b); time_subtract(c, b); time_subtract(c, a)
ClockInverse ==
    /\ clk.op = "none"
    /\ LET c == time_add(clk.a, clk.b)
       IN clk' = [clk EXCEPT !.op = "inv",
                             !.res1 = time_subtract(c, clk.b),
                             !.res2 = time_subtract(c, clk.a)]
    /\ UNCHANGED <<fixedVars, queueVars, lockVars, timerVars, codecVars,
                   ghostVars, pcT, pc, pushedTime, op>>

\* ------------------------------------------------------------ u_nullify()
\* jc_nullify(): the reference gives up its object without releasing it.
jc_nullify(val) == [val EXCEPT !.obj = NULL]

\* u_nullify() is entered (while no reference was given up before: the number
\* of references that are never released is kept bounded).
Nullify_Call ==
    /\ pc[Controller] = "idle"
    /\ \E i \in 1..Len(_queue) : _queue[i].obj # NULL
    /\ \A o \in Objects : refs[o] <= Count(_queue, o) + Count(_toRelease, o)
    /\ op' = "u_nullify"
    /\ pc' = [pc EXCEPT ![Controller] = "un_loop"]
    /\ UNCHANGED <<fixedVars, clockVars, queueVars, lockVars, timerVars, codecVars,
                   ghostVars, pcT, pushedTime>>

\* A u_nullify() that releases the references it invalidates.
U_Nullify_release ==
    /\ pc[Controller] = "un_loop"
    /\ _queue' = [i \in 1..Len(_queue) |-> jc_nullify(_queue[i])]
    /\ refs' = Retained(refs, <<>>, _queue)
    /\ op' = "none"
    /\ pc' = [pc EXCEPT ![Controller] = "idle"]
    /\ UNCHANGED <<fixedVars, clockVars, lockVars, timerVars, codecVars, ghostVars,
                   _tickCounter, _toRelease, pcT, pushedTime>>

\* for (auto& pair : _queue) pair.first.jc_nullify(); u_nullify() returns.
U_Nullify ==
    /\ pc[Controller] = "un_loop"
    /\ _queue' = [i \in 1..Len(_queue) |-> jc_nullify(_queue[i])]
    /\ op' = "none"
    /\ pc' = [pc EXCEPT ![Controller] = "idle"]
    /\ UNCHANGED <<fixedVars, clockVars, lockVars, timerVars, codecVars, ghostVars,
                   _tickCounter, _toRelease, refs, pcT, pushedTime>>

\* ------------------------------------------------------------ ~autorelease_queue()
\* The destructor is entered and calls stop().
Dtor_Call == EnterStop("dtor")

\* _io.stop();
D_IoStop ==
    /\ pc[Controller] = "d_iostop"
    /\ pc' = [pc EXCEPT ![Controller] = "d_join"]
    /\ UNCHANGED <<fixedVars, clockVars, queueVars, lockVars, timerVars, codecVars,
                   ghostVars, pcT, pushedTime, op>>

\* _io.run() returns once the io_service is stopped: the ticker thread ends.
TickerExit ==
    /\ pcT = "run"
    /\ io_stopped
    /\ pcT' = "exited"
    /\ UNCHANGED <<fixedVars, clockVars, queueVars, lockVars, timerVars, codecVars,
                   ghostVars, pc, pushedTime, op>>

\* The destructor returns without waiting for the ticker thread.
D_Join_nowait ==
    /\ pc[Controller] = "d_join"
    /\ pc' = [pc EXCEPT ![Controller] = "destroyed"]
    /\ UNCHANGED <<fixedVars, clockVars, queueVars, lockVars, timerVars, codecVars,
                   ghostVars, pcT, pushedTime, op>>

\* if (_thread.joinable()) _thread.join(); the destructor returns.
D_Join ==
    /\ pc[Controller] = "d_join"
    /\ pcT = "exited"
    /\ pc' = [pc EXCEPT ![Controller] = "destroyed"]
    /\ UNCHANGED <<fixedVars, clockVars, queueVars, lockVars, timerVars, codecVars,
                   ghostVars, pcT, pushedTime, op>>

\* ------------------------------------------------------------ specifications
ProlongStep ==
    \/ \E object \in Prolonged, isPublic \in BOOLEAN : P_Read(object, isPublic)
    \/ P_Lock
    \/ P_Push

\* Producers that add public entries only.
PublicProlongStep ==
    \/ \E object \in Prolonged : P_Read(object, TRUE)
    \/ P_Lock
    \/ P_Push

CountStep ==
    \/ Count_Lock
    \/ Count_Return

TickerStep ==
    \/ TimerExpire
    \/ HandlerRun
    \/ TickLockTimer
    \/ TickLockQueue
    \/ TickScan
    \/ TickAdvance
    \/ TickRelease
    \/ TickRestart

StopStep ==
    \/ Stop_Call
    \/ S_Lock
    \/ S_Cancel

StartStep ==
    \/ Start_Lock
    \/ Start_Timer

ClearStep ==
    \/ Clear_Call
    \/ S_Lock
    \/ S_Cancel
    \/ UC_Tick
    \/ UC_Queue
    \/ UC_Release
    \/ Race_toRelease_clear

\* u_clear, its two clear() calls never meeting the one of tick().
ClearAloneStep ==
    \/ Clear_Call
    \/ S_Lock
    \/ S_Cancel
    \/ UC_Tick
    \/ UC_Queue
    \/ UC_Release

\* Producers, the ticker thread and a thread calling start, stop and u_clear.
Next ==
    \/ ProlongStep
    \/ CountStep
    \/ TickerStep
    \/ StartStep
    \/ StopStep
    \/ ClearStep

Spec == Init /\ [][Next]_vars

\* Producers and the ticker thread alone: nothing stops, clears or loads.
SweepNext ==
    \/ ProlongStep
    \/ TickerStep

SweepSpec == SweepInit /\ [][SweepNext]_vars

\* Producers, the ticker thread and a thread calling stop.
StopNext ==
    \/ ProlongStep
    \/ TickerStep
    \/ StopStep

StopSpec == Init /\ [][StopNext]_vars

\* Producers, the ticker thread and a thread calling start and stop.
StartStopNext ==
    \/ ProlongStep
    \/ TickerStep
    \/ StartStep
    \/ StopStep

StartStopSpec == Init /\ [][StartStopNext]_vars

\* Producers, the ticker thread and a thread calling u_clear.
ClearNext ==
    \/ ProlongStep
    \/ TickerStep
    \/ ClearStep

ClearSpec == Init /\ [][ClearNext]_vars

\* Producers, the ticker thread and a thread calling u_clear: what sets the
\* tick counter after construction (the reference counts that the two
\* unlocked clear() calls can corrupt are not read here).
CounterNext ==
    \/ ProlongStep
    \/ TickerStep
    \/ ClearAloneStep

CounterSpec == Init /\ [][CounterNext]_vars

\* The clock operators applied to every pair of time_point values.
ClockInit ==
    /\ Started
    /\ ageing = FALSE
    /\ clk \in {[clkIdle EXCEPT !.a = x, !.b = y] : x \in TimePoint, y \in TimePoint}
    /\ _tickCounter = 0
    /\ _queue = <<>>
    /\ refs = [o \in Objects |-> 0]

ClockNext ==
    \/ ClockAdd
    \/ ClockSubtract
    \/ ClockInverse

ClockSpec == ClockInit /\ [][ClockNext]_vars

\* save and load applied to a queue of up to MaxQueue entries, no other
\* thread running.
QueuesOf(tokens) ==
    UNION {[1..n -> {NewEntry(o, t, "loaded") : o \in tokens, t \in RecTicks}] :
           n \in 0..MaxQueue}

CodecInit ==
    /\ Started
    /\ ageing = FALSE
    /\ clk = clkIdle
    /\ _tickCounter \in RecTicks
    /\ _queue \in QueuesOf(Objects)
    /\ refs = [o \in Objects |-> Count(_queue, o)]

CodecNext ==
    \/ Save
    \/ Load0
    \/ Load1
    \/ LoadSaved

CodecSpec == CodecInit /\ [][CodecNext]_vars

\* A thread calling u_nullify.
NullifyStep ==
    \/ Nullify_Call
    \/ U_Nullify

\* A version-1 record holding a counter other than 0 and no entry is loaded.
LoadCounter ==
    /\ loaded.op = "none"
    /\ \E t \in RecTicks \ {0} : Load(1, <<t, 0>>, "v1")

\* Every operation on the tick counter: producers (public entries, count),
\* the ticker thread and a thread calling start, stop, u_clear, u_nullify and
\* load.
FrameNext ==
    \/ PublicProlongStep
    \/ CountStep
    \/ TickerStep
    \/ StartStep
    \/ StopStep
    \/ ClearAloneStep
    \/ NullifyStep
    \/ LoadCounter

FrameSpec == Init /\ [][FrameNext]_vars

\* The ticker running on what a load left: any counter, and entries with any
\* pushedTick; producers add entries; nothing stops the ticker.
RestoredQueues ==
    UNION {[1..n -> {NewEntry(o, t, "loaded") : o \in Prolonged, t \in TimePoint}] :
           n \in 0..MaxQueue}

LiveInit ==
    /\ Started
    /\ ageing = TRUE
    /\ clk = clkIdle
    /\ _tickCounter \in TimePoint
    /\ _queue \in RestoredQueues
    /\ refs = [o \in Objects |-> Count(_queue, o)]

\* The timer expires, the io thread runs its handlers, a spinning ticker gets
\* the lock it spins on, and a producer that holds the queue lock releases it.
LiveFairness ==
    /\ WF_vars(TimerExpire)
    /\ WF_vars(HandlerRun)
    /\ SF_vars(TickLockTimer)
    /\ SF_vars(TickLockQueue)
    /\ WF_vars(TickScan)
    /\ WF_vars(TickAdvance)
    /\ WF_vars(TickRelease)
    /\ WF_vars(TickRestart)
    /\ WF_vars(P_Push)

LiveSpec == LiveInit /\ [][SweepNext]_vars /\ LiveFairness

\* Producers of public entries, the ticker thread and a thread that runs the
\* destructor.
DtorStep ==
    \/ Dtor_Call
    \/ S_Lock
    \/ S_Cancel
    \/ D_IoStop
    \/ D_Join

DtorNext ==
    \/ PublicProlongStep
    \/ TickerStep
    \/ TickerExit
    \/ DtorStep

\* The destructor's thread runs, gets the timer lock it spins on, and the io
\* thread leaves run() once the io_service is stopped.
DtorFairness ==
    /\ LiveFairness
    /\ SF_vars(S_Lock)
    /\ WF_vars(S_Cancel)
    /\ WF_vars(D_IoStop)
    /\ WF_vars(TickerExit)
    /\ WF_vars(D_Join)

DtorSpec == Init /\ [][DtorNext]_vars /\ DtorFairness

\* Producers of public entries, the ticker thread and a thread calling
\* u_nullify and u_clear.
NullifyNext ==
    \/ PublicProlongStep
    \/ TickerStep
    \/ NullifyStep
    \/ ClearStep

NullifySpec == Init /\ [][NullifyNext]_vars

\* ------------------------------------------------------------ properties

\* C1 (as stated): for all a, b in the time_point range, 0 and MAX included,
\* time_subtract(time_add(a, b), b) = a and time_subtract(time_add(a, b), a) = b.
C1_Original ==
    clk.op = "inv" => (clk.res1 = clk.a /\ clk.res2 = clk.b)

\* C1 (amended): time_subtract(time_add(a, b), b) = a holds exactly when
\* a # MAX, and time_subtract(time_add(a, b), a) = b exactly when b # MAX; so
\* both hold for all a, b in 0..MAX-1.
C1_InversionBelowMax ==
    clk.op = "inv" =>
        /\ (clk.res1 = clk.a) <=> (clk.a # MAX)
        /\ (clk.res2 = clk.b) <=> (clk.b # MAX)

\* The inversion applied where the sum wraps around.
C1_Witness ==
    /\ clk.op = "inv"
    /\ clk.a = MAX - 1
    /\ clk.b = MAX - 1
    /\ clk.res1 = clk.a
    /\ clk.res2 = clk.b

\* C2 (as stated): a public entry is still in the queue after each of the
\* first obj_lifeInTicks - 1 sweeps that follow its insertion, and the
\* obj_lifeInTicks-th sweep removes and releases it.
C2_Original ==
    /\ \A i \in 1..Len(_queue) :
          _queue[i].pub = "public" => _queue[i].age <= obj_lifeInTicks - 1
    /\ \A i \in 1..Len(_toRelease) :
          _toRelease[i].pub = "public" => _toRelease[i].age = obj_lifeInTicks

\* C3 (as stated): once stop() has returned and start() has not been called
\* again, the ticker thread is in no sweep.
C3_Original ==
    stopped => pcT \notin SweepPcs

\* C4: stop() is past its lock acquisition only when no sweep is in progress:
\* a sweep that held the timer lock when stop() was called has finished (scan,
\* counter advance, releases, re-arming), and nothing is left to release.
C4_StopWaitsForSweep ==
    pc[Controller] = "s_cancel" =>
        /\ pcT \notin SweepPcs
        /\ waitSweep # "pending"
        /\ _toRelease = <<>>
        /\ _timer_mutex = Controller

\* stop() was called during a sweep and holds the timer lock after it.
C4_Witness ==
    /\ pc[Controller] = "s_cancel"
    /\ waitSweep = "finished"
    /\ _tickCounter > 0

\* C5 (as stated): the references the subsystem holds on an object are those
\* of its entries in the queue plus those pending in the release buffer.
C5_Original ==
    \A o \in Objects : refs[o] = Count(_queue, o) + Count(_toRelease, o)

\* C6 (as stated): a private entry is released by the first sweep that runs
\* after its insertion: no private entry is left in the queue by a sweep.
C6_Original ==
    \A i \in 1..Len(_queue) : _queue[i].pub = "private" => _queue[i].age = 0

\* C7 (as stated): a version-0 load leaves the counter and the queue that the
\* version-1 load of the migrated record leaves.
C7_Original ==
    loaded.op = "v0" =>
        /\ loaded.tick = loaded.v1tick
        /\ Pairs(loaded.queue) = Pairs(loaded.v1queue)

\* C8 (as stated): the clock operators are arithmetic modulo 2^w, so that
\* time_add(MAX, MAX) = MAX - 1 and time_subtract(0, 1) = MAX.
C8_Original ==
    /\ clk.op = "add" => clk.res1 = (clk.a + clk.b) % (MAX + 1)
    /\ clk.op = "sub" => clk.res1 = (clk.a - clk.b) % (MAX + 1)

\* C8 (amended): the clock operators are arithmetic modulo MAX (2^w - 1):
\* the result is congruent to a + b, resp. a - b, modulo MAX, with
\* time_add(MAX, MAX) = MAX and time_subtract(0, 1) = MAX - 1.
C8_ModuloMax ==
    /\ clk.op = "add" =>
          /\ (clk.res1 - (clk.a + clk.b)) % MAX = 0
          /\ (clk.a = MAX /\ clk.b = MAX) => clk.res1 = MAX
    /\ clk.op = "sub" =>
          /\ (clk.res1 - (clk.a - clk.b)) % MAX = 0
          /\ (clk.a = 0 /\ clk.b = 1) => clk.res1 = MAX - 1

\* time_subtract applied to 0 and 1.
C8_Witness ==
    /\ clk.op = "sub"
    /\ clk.a = 0
    /\ clk.b = 1
    /\ clk.res1 = MAX - 1

\* C9: time_add(a, b) is a + b when a + b < MAX and a + b - MAX otherwise;
\* time_subtract(m, s) is m - s when m >= s and MAX - (s - m) otherwise; no
\* intermediate value leaves the range of time_point.
C9_ClosedForms ==
    /\ clk.op = "add" =>
          /\ clk.res1 = IF clk.a + clk.b < MAX
                        THEN clk.a + clk.b
                        ELSE clk.a + clk.b - MAX
          /\ clk.a = MAX => clk.res1 = clk.b
          /\ clk.raw \subseteq TimePoint
    /\ clk.op = "sub" =>
          /\ clk.res1 = IF clk.a >= clk.b
                        THEN clk.a - clk.b
                        ELSE MAX - (clk.b - clk.a)
          /\ (clk.a = 0 /\ clk.b = 1) => clk.res1 = MAX - 1
          /\ clk.raw \subseteq TimePoint

\* time_add applied to MAX and MAX.
C9_Witness ==
    /\ clk.op = "add"
    /\ clk.a = MAX
    /\ clk.b = MAX
    /\ clk.res1 = MAX

\* C10: the archive of a save starts with the tick counter and holds the
\* queue's pairs; its version-1 load, into whatever queue, leaves the saved
\* counter and the saved (object, pushedTick) pairs in the saved order.
C10_RoundTrip ==
    /\ saved.valid =>
          /\ ar[1] = saved.tick
          /\ Len(ar) = 2 + 2 * Len(saved.pairs)
    /\ loaded.op = "saved" =>
          /\ loaded.tick = saved.tick
          /\ Pairs(loaded.queue) = saved.pairs

\* A saved non-empty queue was loaded back after another record had replaced
\* the counter and the queue.
C10_Witness ==
    /\ loaded.op = "saved"
    /\ saved.pairs # <<>>
    /\ saved.tick = MAX
    /\ _queue = loaded.queue
    /\ _tickCounter = loaded.tick

\* C11 (as stated): when prolong_lifetime appends its entry, holding the queue
\* lock, the pushedTime it stores is the tick counter of that moment (public)
\* or that counter back-dated by obj_lifeInTicks (private).
C11_Original ==
    pc[Producer] = "p_push" =>
        pushedTime.tick = IF pushedTime.pub
                          THEN _tickCounter
                          ELSE time_subtract(_tickCounter, obj_lifeInTicks)

\* C12 (as stated): a thread that is at an access to the entry sequence or to
\* the tick counter in prolong_lifetime, count, the scan of a sweep or u_clear
\* holds the queue lock.
C12_Original ==
    /\ pc[Producer] \in {"p_push", "c_count"} => _queue_mutex = Producer
    /\ pcT \in {"scan", "advance"} => _queue_mutex = Ticker
    /\ pc[Controller] \in {"uc_tick", "uc_queue"} => _queue_mutex = Controller

\* C13 (as stated): while u_clear resets the counter and empties the queue and
\* the release buffer, the ticker thread is in no sweep.
C13_Original ==
    pc[Controller] \in {"uc_tick", "uc_queue", "uc_release"} =>
        pcT \notin SweepPcs

\* C14: the tick counter changes in three ways only: the counter advance of a
\* sweep sets it to time_add(counter, one_tick), u_clear sets it to 0, load
\* sets it to the counter of the record; every other step (prolong_lifetime,
\* count, start, stop, u_nullify) leaves it unchanged, and a handler that is
\* run with an error code changes neither the queue, the counter, the release
\* buffer, the reference counts, the locks, the timer nor the ticker's position.
C14_CounterFrame ==
    [][/\ _tickCounter' # _tickCounter =>
            \/ /\ pcT = "advance"
               /\ pcT' = "release"
               /\ _tickCounter' = time_add(_tickCounter, one_tick)
            \/ /\ pc[Controller] = "uc_tick"
               /\ pc'[Controller] = "uc_queue"
               /\ _tickCounter' = 0
            \/ /\ loaded.op = "none"
               /\ loaded'.op # "none"
               /\ _tickCounter' = loaded'.tick
       /\ (pcT = "run" /\ _io # <<>> /\ Head(_io) = "aborted" /\ _io' = Tail(_io)) =>
            UNCHANGED <<queueVars, lockVars, _timer, pcT>>]_vars

\* A record with counter MAX was loaded and a sweep has advanced it to 1,
\* after a stop() that cancelled a wait.
C14_Witness ==
    /\ loaded.op = "v1"
    /\ loaded.tick = MAX
    /\ _tickCounter = 1
    /\ pcT = "release"
    /\ stopped

\* The thread that thread t spins on: the holder of the lock t is requesting,
\* "none" when t requests no lock or the lock is free.
Threads == {Producer, Controller, Ticker}

SpinsOn(t) ==
    CASE t = Ticker /\ pcT = "tick" /\ _timer_mutex # FREE -> _timer_mutex
      [] t = Ticker /\ pcT = "lockq" /\ _queue_mutex # FREE -> _queue_mutex
      [] t = Producer /\ pc[Producer] = "p_lock" /\ _queue_mutex # FREE -> _queue_mutex
      [] t = Controller /\ pc[Controller] = "s_lock" /\ _timer_mutex # FREE -> _timer_mutex
      [] OTHER -> "none"

\* C15: a thread that requests the timer lock does not hold the queue lock, no
\* thread requests a lock it holds, and the threads spinning on a lock never
\* form a cycle (producers, ticker and a caller of start, stop and u_clear
\* cannot deadlock).
C15_LockOrder ==
    /\ pcT = "tick" => _queue_mutex # Ticker
    /\ pc[Controller] \in {"idle", "s_lock"} =>
          (_queue_mutex # Controller /\ _timer_mutex # Controller)
    /\ pc[Producer] \in {"idle", "p_lock"} => _queue_mutex # Producer
    /\ _timer_mutex # Producer
    /\ \A t \in Threads :
          /\ SpinsOn(t) # t
          /\ SpinsOn(t) # "none" =>
                /\ SpinsOn(SpinsOn(t)) # t
                /\ SpinsOn(SpinsOn(t)) # "none" => SpinsOn(SpinsOn(SpinsOn(t))) # t

\* stop() spins on the timer lock held by a sweep that spins on the queue lock
\* held by a producer.
C15_Witness ==
    /\ pc[Controller] = "s_lock"
    /\ _timer_mutex = Ticker
    /\ pcT = "lockq"
    /\ _queue_mutex = Producer

\* C16: while the ticker runs, no entry, pushed at any counter value or
\* restored with any pushedTick, is in the queue after obj_lifeInTicks sweeps
\* have scanned it, none is released by a later scan than its
\* obj_lifeInTicks-th, and scans complete again and again: every entry is
\* removed and released, at the latest by the obj_lifeInTicks-th sweep after
\* it entered the queue.
C16_BoundedLifetime ==
    /\ [](\A i \in 1..Len(_queue) : _queue[i].age < obj_lifeInTicks)
    /\ [](\A i \in 1..Len(_toRelease) : _toRelease[i].age <= obj_lifeInTicks)
    /\ []<>(pcT = "advance")

\* A restored entry is released by the obj_lifeInTicks-th sweep that scans it.
C16_Witness ==
    /\ pcT = "release"
    /\ \E i \in 1..Len(_toRelease) :
          /\ _toRelease[i].pub = "loaded"
          /\ _toRelease[i].age = obj_lifeInTicks

\* C17: the destructor stops the io loop only after its stop() has returned
\* and returns only after the ticker thread has ended; once entered it
\* returns in every interleaving, and from then on the ticker thread is in no
\* sweep and releases nothing.
C17_Teardown ==
    /\ [](pc[Controller] \in {"d_iostop", "d_join", "destroyed"} => stopped)
    /\ [](pc[Controller] = "destroyed" => pcT = "exited")
    /\ [](pcT = "exited" => io_stopped)
    /\ (op = "dtor") ~> (pc[Controller] = "destroyed")

\* The destructor has returned and the ticker thread has ended, the handler
\* of a wait that completed with success left in the io queue, never run.
C17_Witness ==
    /\ pc[Controller] = "destroyed"
    /\ pcT = "exited"
    /\ _io # <<>>
    /\ Head(_io) = "ok"

\* The references to object o that the queue and the release buffer hold.
Held(o) == Count(_queue, o) + Count(_toRelease, o)

C19_NeverMax ==
    /\ _tickCounter # MAX
    /\ \A i \in 1..Len(_queue) :
          time_subtract(_tickCounter, _queue[i].tick) + 1 <= MAX

\* No u_clear was called, the sweep at MAX - 1 has set the counter to 0 and
\* the queue holds a public entry pushed at MAX - 1.
C19_Witness ==
    /\ ~stopped
    /\ op = "none"
    /\ _tickCounter = 0
    /\ \E i \in 1..Len(_queue) :
          /\ _queue[i].tick = MAX - 1
          /\ _queue[i].pub = "public"

\* C20 (as stated): once u_clear has returned, its stop() having cancelled a
\* pending wait, and until start() is called, the timer is not armed and the
\* ticker thread is in no sweep (so nothing that prolong_lifetime adds in that
\* interval is removed).
C20_Original ==
    (waitSweep = "cancelled" /\ stopped /\ pc[Controller] = "idle") =>
        (_timer # "armed" /\ pcT \notin SweepPcs)

====
